---- MODULE Spec2Model ----
(***************************************************************************)
(* custom::priority_queue (src/priority_queue.h): a binary heap kept in a  *)
(* zero-based sequence container and addressed with one-based heap         *)
(* indices.  A priority_queue value is a record [container, compare]; the  *)
(* member functions are operators that return the new value together with  *)
(* a trace of what the call did (storage indices touched, number of        *)
(* percolateDown invocations).                                             *)
(***************************************************************************)
EXTENDS Integers, Sequences, FiniteSets, TLC

VARIABLES lhs, rhs, pre, last, input, pushed, built, outLhs, outRhs, frame

vars == <<lhs, rhs, pre, last, input, pushed, built, outLhs, outRhs, frame>>

-----------------------------------------------------------------------------
(* Bounds of the model *)

\* elements are drawn from 1..MaxVal
MaxVal == 3
\* push is not called on a heap that already holds MaxSize elements
MaxSize == 7
\* longest container handed to the constructors in the build/drain scenario
MaxLen == 4
\* longest container handed to the constructors in the swap scenario
MaxSwapLen == 2
\* longest storage percolateDown is applied to on its own
MaxPdLen == 6
\* in the step-by-step specification push is not called on a heap that
\* already holds MaxStepSize elements
MaxStepSize == 7

Values == 1 .. MaxVal

\* the two orderings the heap is instantiated with: std::less, std::greater
Compares == {"less", "greater"}

SeqsUpTo(S, n) == UNION {[1 .. k -> S] : k \in 0 .. n}

\* the worked example of the documentation
Example == <<5, 3, 8, 1, 9, 2>>

-----------------------------------------------------------------------------
(* The collaborators: the ordering and the storage container *)

\* an ordering that is "less than" whatever was configured
CompareLessOnly(cmp, a, b) == a < b

\* compare(a, b): true iff a ranks strictly below b
Compare(cmp, a, b) == IF cmp = "less" THEN a < b ELSE a > b

\* container[i] for a zero-based index i.  An index outside the storage is
\* not a defined read; it is reported in the trace and yields 0, which is no
\* element.
At(c, i) == IF i + 1 \in 1 .. Len(c) THEN c[i + 1] ELSE 0

\* std::swap(container[i], container[j]), zero-based
SwapAt(c, i, j) ==
    IF i + 1 \in 1 .. Len(c) /\ j + 1 \in 1 .. Len(c)
    THEN [k \in 1 .. Len(c) |->
             IF k = i + 1 THEN c[j + 1] ELSE IF k = j + 1 THEN c[i + 1] ELSE c[k]]
    ELSE c

\* container.pop_back()
PopBack(c) == SubSeq(c, 1, Len(c) - 1)

size(q) == Len(q.container)

empty(q) == q.container = <<>>

-----------------------------------------------------------------------------
(* percolateDown *)

\* an off-by-one test of the right child: indexRight <= size() + 1
RightInRangeOffByOne(c, indexRight) == indexRight <= Len(c) + 1

\* line 174: indexRight <= size()
RightInRange(c, indexRight) == indexRight <= Len(c)

\* line 179: indexBigger <= size()
BiggerInRange(c, indexBigger) == indexBigger <= Len(c)

\* a choice of child that never looks at the right child
IndexBiggerLeftOnly(c, cmp, indexHeap) == indexHeap * 2

\* a choice of child that takes the right child unless the left outranks it
IndexBiggerTiesRight(c, cmp, indexHeap) ==
    LET indexLeft == indexHeap * 2
        indexRight == indexLeft + 1
    IN  IF indexRight <= Len(c)
           /\ ~Compare(cmp, At(c, indexRight - 1), At(c, indexLeft - 1))
        THEN indexRight
        ELSE indexLeft

\* lines 169-177: the child the parent is compared with

IndexBigger(c, cmp, indexHeap) ==
    LET indexLeft == indexHeap * 2
        indexRight == indexLeft + 1
    IN  IF RightInRange(c, indexRight)
           /\ Compare(cmp, At(c, indexLeft - 1), At(c, indexRight - 1))
        THEN indexRight
        ELSE indexLeft

\* storage indices read by the two conditions of percolateDown (&& short-circuits)
ReadsOf(c, indexHeap, indexBigger) ==
    (IF RightInRange(c, indexHeap * 2 + 1)
     THEN {indexHeap * 2 - 1, indexHeap * 2}
     ELSE {})
    \cup (IF BiggerInRange(c, indexBigger)
          THEN {indexHeap - 1, indexBigger - 1}
          ELSE {})

\* a percolateDown that returns what its recursive call returned
RECURSIVE percolateDownDeepResult(_, _, _)
percolateDownDeepResult(c, cmp, indexHeap) ==
    LET indexBigger == IndexBigger(c, cmp, indexHeap)
        reads == ReadsOf(c, indexHeap, indexBigger)
    IN  IF BiggerInRange(c, indexBigger)
           /\ Compare(cmp, At(c, indexHeap - 1), At(c, indexBigger - 1))
        THEN LET sub == percolateDownDeepResult(
                            SwapAt(c, indexHeap - 1, indexBigger - 1),
                            cmp, indexBigger)
             IN  [container |-> sub.container,
                  changed |-> sub.changed,
                  acc |-> reads \cup sub.acc,
                  calls |-> 1 + sub.calls]
        ELSE [container |-> c, changed |-> FALSE, acc |-> reads, calls |-> 1]

\* percolateDown(indexHeap)
RECURSIVE percolateDown(_, _, _)
percolateDown(c, cmp, indexHeap) ==
    LET indexBigger == IndexBigger(c, cmp, indexHeap)
        reads == ReadsOf(c, indexHeap, indexBigger)
    IN  IF BiggerInRange(c, indexBigger)
           /\ Compare(cmp, At(c, indexHeap - 1), At(c, indexBigger - 1))
        THEN LET sub == percolateDown(SwapAt(c, indexHeap - 1, indexBigger - 1),
                                      cmp, indexBigger)
             IN  [container |-> sub.container,
                  changed |-> TRUE,
                  acc |-> reads \cup sub.acc,
                  calls |-> 1 + sub.calls]
        ELSE [container |-> c, changed |-> FALSE, acc |-> reads, calls |-> 1]

-----------------------------------------------------------------------------
(* The member functions.  Each returns [q, threw, ret, acc, calls]:        *)
(* the queue after the call, whether std::out_of_range was thrown, the     *)
(* value returned (0 when none), the storage indices touched and the       *)
(* number of percolateDown invocations.                                    *)

Outcome(q, threw, ret, acc, calls) ==
    [q |-> q, threw |-> threw, ret |-> ret, acc |-> acc, calls |-> calls]

\* a top() that reads the last element of the storage
topBack(q) ==
    IF ~empty(q)
    THEN Outcome(q, FALSE, At(q.container, size(q) - 1), {size(q) - 1}, 0)
    ELSE Outcome(q, TRUE, 0, {}, 0)

\* a top() without the empty() test
topNoThrow(q) == Outcome(q, FALSE, At(q.container, 0), {0}, 0)

\* top()
top(q) ==
    IF ~empty(q)
    THEN Outcome(q, FALSE, At(q.container, 0), {0}, 0)
    ELSE Outcome(q, TRUE, 0, {}, 0)

\* a pop() that leaves the displaced element at the root
popNoPercolate(q) ==
    IF empty(q)
    THEN Outcome(q, FALSE, 0, {}, 0)
    ELSE Outcome([q EXCEPT !.container =
                      PopBack(SwapAt(q.container, 0, size(q) - 1))],
                 FALSE, 0, {0, size(q) - 1}, 0)

\* a pop() without the empty() test
popNoGuard(q) ==
    LET r == percolateDown(PopBack(SwapAt(q.container, 0, size(q) - 1)),
                           q.compare, 1)
    IN  Outcome([q EXCEPT !.container = r.container], FALSE, 0,
                {0, size(q) - 1} \cup r.acc, r.calls)

\* a pop() that drops the last element without exchanging it with the first
popLast(q) ==
    IF empty(q)
    THEN Outcome(q, FALSE, 0, {}, 0)
    ELSE LET r == percolateDown(PopBack(q.container), q.compare, 1)
         IN  Outcome([q EXCEPT !.container = r.container], FALSE, 0, r.acc, r.calls)

\* pop()
pop(q) ==
    IF empty(q)
    THEN Outcome(q, FALSE, 0, {}, 0)
    ELSE LET r == percolateDown(PopBack(SwapAt(q.container, 0, size(q) - 1)),
                                q.compare, 1)
         IN  Outcome([q EXCEPT !.container = r.container], FALSE, 0,
                     {0, size(q) - 1} \cup r.acc, r.calls)

\* the loop of push, lines 148-149, from heap index `index`
RECURSIVE pushWalk(_, _, _)
pushWalk(c, cmp, index) ==
    IF index = 0
    THEN [container |-> c, acc |-> {}, calls |-> 0]
    ELSE LET r == percolateDown(c, cmp, index)
         IN  IF r.changed
             THEN LET up == pushWalk(r.container, cmp, index \div 2)
                  IN  [container |-> up.container,
                       acc |-> r.acc \cup up.acc,
                       calls |-> r.calls + up.calls]
             ELSE [container |-> r.container, acc |-> r.acc, calls |-> r.calls]

\* a push that repairs the parent of the new position and stops there
pushOneLevel(q, t) ==
    LET c == Append(q.container, t)
        r == IF Len(c) \div 2 = 0
             THEN [container |-> c, acc |-> {}, calls |-> 0]
             ELSE percolateDown(c, q.compare, Len(c) \div 2)
    IN  Outcome([q EXCEPT !.container = r.container], FALSE, 0, r.acc, r.calls)

\* a push that puts the new element first and sinks it from the root
pushFront(q, t) ==
    LET r == percolateDown(<<t>> \o q.container, q.compare, 1)
    IN  Outcome([q EXCEPT !.container = r.container], FALSE, 0, r.acc, r.calls)

\* a push that appends and repairs nothing
pushAppendOnly(q, t) ==
    Outcome([q EXCEPT !.container = Append(q.container, t)], FALSE, 0, {}, 0)

\* a push that overwrites the last element instead of appending
pushReplaceLast(q, t) ==
    IF empty(q)
    THEN Outcome([q EXCEPT !.container = <<t>>], FALSE, 0, {}, 0)
    ELSE LET w == pushWalk([q.container EXCEPT ![size(q)] = t], q.compare,
                           size(q) \div 2)
         IN  Outcome([q EXCEPT !.container = w.container], FALSE, 0, w.acc, w.calls)

\* push(t)
push(q, t) ==
    LET c == Append(q.container, t)
        w == pushWalk(c, q.compare, Len(c) \div 2)
    IN  Outcome([q EXCEPT !.container = w.container], FALSE, 0, w.acc, w.calls)

\* the loop of heapify, lines 199-200, from heap index `indexHeap` down to 1
RECURSIVE heapifyLoop(_, _, _)
heapifyLoop(c, cmp, indexHeap) ==
    IF indexHeap >= 1
    THEN LET r == percolateDown(c, cmp, indexHeap)
             rest == heapifyLoop(r.container, cmp, indexHeap - 1)
         IN  [container |-> rest.container,
              acc |-> r.acc \cup rest.acc,
              calls |-> r.calls + rest.calls]
    ELSE [container |-> c, acc |-> {}, calls |-> 0]

\* a heapify whose loop stops before the root (indexHeap > 1)
RECURSIVE heapifyLoopSkipRoot(_, _, _)
heapifyLoopSkipRoot(c, cmp, indexHeap) ==
    IF indexHeap > 1
    THEN LET r == percolateDown(c, cmp, indexHeap)
             rest == heapifyLoopSkipRoot(r.container, cmp, indexHeap - 1)
         IN  [container |-> rest.container,
              acc |-> r.acc \cup rest.acc,
              calls |-> r.calls + rest.calls]
    ELSE [container |-> c, acc |-> {}, calls |-> 0]

heapifySkipRoot(q) ==
    LET h == heapifyLoopSkipRoot(q.container, q.compare, size(q) \div 2)
    IN  Outcome([q EXCEPT !.container = h.container], FALSE, 0, h.acc, h.calls)

\* heapify()
heapify(q) ==
    LET num == size(q)
        h == heapifyLoop(q.container, q.compare, num \div 2)
    IN  Outcome([q EXCEPT !.container = h.container], FALSE, 0, h.acc, h.calls)

\* priority_queue(const Compare& c = Compare())
Default(c) == [container |-> <<>>, compare |-> c]

\* priority_queue(const Compare& c, Container&& rhs)
FromContainer(c, s) == heapify([container |-> s, compare |-> c])

\* a swap that exchanges the storage and leaves each ordering in place
swapContainersOnly(l, r) ==
    [lhs |-> [l EXCEPT !.container = r.container],
     rhs |-> [r EXCEPT !.container = l.container]]

\* custom::swap(lhs, rhs)
swap(l, r) ==
    [lhs |-> [container |-> r.container, compare |-> r.compare],
     rhs |-> [container |-> l.container, compare |-> l.compare]]

-----------------------------------------------------------------------------
(* The state machine.  lhs and rhs are two priority_queue objects; pre is  *)
(* their value before the last call and last is what that call did.  The   *)
(* build/drain scenario also keeps the container it was given (input), how *)
(* many of its elements were pushed into lhs, whether rhs was constructed  *)
(* from it, and the values read by top() before each pop().                *)

Call(op, arg, o) ==
    [op |-> op, arg |-> arg, threw |-> o.threw, ret |-> o.ret,
     acc |-> o.acc, calls |-> o.calls]

NoCall == [op |-> "construct", arg |-> 0, threw |-> FALSE, ret |-> 0,
           acc |-> {}, calls |-> 0]

Snapshot == [lhs |-> lhs, rhs |-> rhs]

\* the call in progress, for the specification that follows a call step by
\* step: where it stands (pc), which member function runs (caller), the
\* loop variable of push or heapify (index), the heap indices of the
\* percolateDown activations (stack), what the last percolateDown to return
\* returned (ret), the calls the loop has made (iters), and the storage
\* indices the last step touched (reads; oob: one of them was outside the
\* storage).  No call is in progress in the other specifications.
Idle == [pc |-> "idle", caller |-> "none", index |-> 0, stack |-> <<>>,
         ret |-> FALSE, iters |-> 0, reads |-> {}, oob |-> FALSE]

\* lhs.push(t)
Push(t) ==
    /\ size(lhs) < MaxSize
    /\ LET o == push(lhs, t)
       IN  /\ lhs' = o.q
           /\ last' = Call("push", t, o)
    /\ pre' = Snapshot
    /\ UNCHANGED <<rhs, input, pushed, built, outLhs, outRhs, frame>>

\* lhs.pop()
Pop ==
    /\ LET o == pop(lhs)
       IN  /\ lhs' = o.q
           /\ last' = Call("pop", 0, o)
    /\ pre' = Snapshot
    /\ UNCHANGED <<rhs, input, pushed, built, outLhs, outRhs, frame>>

\* lhs.top()
Top ==
    /\ LET o == top(lhs)
       IN  /\ lhs' = o.q
           /\ last' = Call("top", 0, o)
    /\ pre' = Snapshot
    /\ UNCHANGED <<rhs, input, pushed, built, outLhs, outRhs, frame>>

\* a queue under test: default-constructed, or constructed from a container
Init ==
    /\ \E c \in Compares :
          lhs \in {Default(c)}
                  \cup {FromContainer(c, s).q : s \in SeqsUpTo(Values, MaxLen)}
    /\ rhs = Default("less")
    /\ pre = Snapshot
    /\ last = NoCall
    /\ frame = Idle
    /\ input = <<>>
    /\ pushed = 0
    /\ built = FALSE
    /\ outLhs = <<>>
    /\ outRhs = <<>>

Next == (\E t \in Values : Push(t)) \/ Pop \/ Top

Spec == Init /\ [][Next]_vars

-----------------------------------------------------------------------------
(* Build and drain: lhs is filled by pushing the elements of input one at  *)
(* a time, rhs is constructed from input as a container (heapify), and     *)
(* each is emptied by top() followed by pop().                             *)

BuildPush ==
    /\ pushed < Len(input)
    /\ LET o == push(lhs, input[pushed + 1])
       IN  /\ lhs' = o.q
           /\ last' = Call("push", input[pushed + 1], o)
    /\ pushed' = pushed + 1
    /\ pre' = Snapshot
    /\ UNCHANGED <<rhs, input, built, outLhs, outRhs, frame>>

BuildHeapify ==
    /\ ~built
    /\ LET o == FromContainer(rhs.compare, input)
       IN  /\ rhs' = o.q
           /\ last' = Call("heapify", 0, o)
    /\ built' = TRUE
    /\ pre' = Snapshot
    /\ UNCHANGED <<lhs, input, pushed, outLhs, outRhs, frame>>

DrainLhs ==
    /\ pushed = Len(input)
    /\ ~empty(lhs)
    /\ outLhs' = Append(outLhs, top(lhs).ret)
    /\ LET o == pop(lhs)
       IN  /\ lhs' = o.q
           /\ last' = Call("pop", 0, o)
    /\ pre' = Snapshot
    /\ UNCHANGED <<rhs, input, pushed, built, outRhs, frame>>

DrainRhs ==
    /\ built
    /\ ~empty(rhs)
    /\ outRhs' = Append(outRhs, top(rhs).ret)
    /\ LET o == pop(rhs)
       IN  /\ rhs' = o.q
           /\ last' = Call("pop", 0, o)
    /\ pre' = Snapshot
    /\ UNCHANGED <<lhs, input, pushed, built, outLhs, frame>>

InitBuild ==
    /\ input \in SeqsUpTo(Values, MaxLen) \cup {Example}
    /\ \E c \in Compares :
          /\ lhs = Default(c)
          /\ rhs = Default(c)
    /\ pre = Snapshot
    /\ last = NoCall
    /\ frame = Idle
    /\ pushed = 0
    /\ built = FALSE
    /\ outLhs = <<>>
    /\ outRhs = <<>>

NextBuild == BuildPush \/ BuildHeapify \/ DrainLhs \/ DrainRhs

SpecBuild == InitBuild /\ [][NextBuild]_vars

\* both queues were built from input and emptied again
Drained ==
    /\ pushed = Len(input)
    /\ built
    /\ empty(lhs)
    /\ empty(rhs)

-----------------------------------------------------------------------------
(* Swap: two queues, each constructed from a container, are exchanged.     *)

Swap ==
    /\ LET s == swap(lhs, rhs)
       IN  /\ lhs' = s.lhs
           /\ rhs' = s.rhs
    /\ last' = [NoCall EXCEPT !.op = "swap"]
    /\ pre' = Snapshot
    /\ UNCHANGED <<input, pushed, built, outLhs, outRhs, frame>>

SwapInputs == SeqsUpTo(Values, MaxSwapLen) \cup {<<10, 4>>, <<7>>}

InitSwap ==
    /\ \E c \in Compares, s \in SwapInputs : lhs = FromContainer(c, s).q
    /\ \E c \in Compares, s \in SwapInputs : rhs = FromContainer(c, s).q
    /\ pre = Snapshot
    /\ last = NoCall
    /\ frame = Idle
    /\ input = <<>>
    /\ pushed = 0
    /\ built = FALSE
    /\ outLhs = <<>>
    /\ outRhs = <<>>

NextSwap == Swap

SpecSwap == InitSwap /\ [][NextSwap]_vars

-----------------------------------------------------------------------------
(* Copy and move construction: lhs is constructed from rhs.  The ordering  *)
(* of the new queue is the constructor's argument c, which defaults to     *)
(* Compare(); the ordering held by the source is not read.                 *)

\* Compare(): the value of the defaulted argument `const Compare& c = Compare()`
DefaultCompare == "less"

\* priority_queue(const priority_queue& rhs, const Compare& c = Compare())
CopyFrom(src, c) == [container |-> src.container, compare |-> c]

\* priority_queue(priority_queue&& rhs, const Compare& c = Compare())
MoveFrom(src, c) == [container |-> src.container, compare |-> c]

\* the storage a moved-from container may be left with: valid but unspecified
MovedFrom(c) == {<<>>, c}

CopyConstruct(c) ==
    /\ lhs' = CopyFrom(rhs, c)
    /\ last' = [NoCall EXCEPT !.op = "copy", !.arg = c]
    /\ pre' = Snapshot
    /\ UNCHANGED <<rhs, input, pushed, built, outLhs, outRhs, frame>>

MoveConstruct(c) ==
    /\ lhs' = MoveFrom(rhs, c)
    /\ \E m \in MovedFrom(rhs.container) : rhs' = [rhs EXCEPT !.container = m]
    /\ last' = [NoCall EXCEPT !.op = "move", !.arg = c]
    /\ pre' = Snapshot
    /\ UNCHANGED <<input, pushed, built, outLhs, outRhs, frame>>

\* the source is a queue constructed from a container, with either ordering
InitCopy ==
    /\ \E c \in Compares, s \in SeqsUpTo(Values, MaxLen) :
          rhs = FromContainer(c, s).q
    /\ lhs = Default(DefaultCompare)
    /\ pre = Snapshot
    /\ last = NoCall
    /\ frame = Idle
    /\ input = <<>>
    /\ pushed = 0
    /\ built = FALSE
    /\ outLhs = <<>>
    /\ outRhs = <<>>

NextCopy ==
    \/ CopyConstruct(DefaultCompare)
    \/ MoveConstruct(DefaultCompare)
    \/ \E c \in Compares : CopyConstruct(c)
    \/ \E c \in Compares : MoveConstruct(c)

SpecCopy == InitCopy /\ [][NextCopy]_vars

-----------------------------------------------------------------------------
(* Range construction: rhs is constructed from the range holding input,    *)
(* lhs is default-constructed and given the same elements by push calls.   *)

\* the loop of the range constructor, lines 56-60, from position `first`;
\* acc and calls collect the trace of the push calls made so far
RECURSIVE rangeLoop(_, _, _, _, _)
rangeNext(o, s, first, acc, calls) ==
    rangeLoop(o.q, s, first + 1, acc \cup o.acc, calls + o.calls)

rangeLoop(q, s, first, acc, calls) ==
    IF first # Len(s) + 1
    THEN rangeNext(push(q, s[first]), s, first, acc, calls)
    ELSE Outcome(q, FALSE, 0, acc, calls)

\* a range constructor that stores the range and heapifies it in bulk
FromRangeBulk(c, s) == FromContainer(c, s)

\* priority_queue(Iterator first, Iterator last, const Compare& c = Compare());
\* container.reserve changes the capacity only
FromRange(c, s) == rangeLoop(Default(c), s, 1, {}, 0)

BuildRange ==
    /\ ~built
    /\ LET o == FromRange(rhs.compare, input)
       IN  /\ rhs' = o.q
           /\ last' = Call("range", 0, o)
    /\ built' = TRUE
    /\ pre' = Snapshot
    /\ UNCHANGED <<lhs, input, pushed, outLhs, outRhs, frame>>

NextRange == BuildPush \/ BuildRange

SpecRange == InitBuild /\ [][NextRange]_vars

-----------------------------------------------------------------------------
(* percolateDown on its own: the queue holds a container stored as it was  *)
(* given (no heapify), and percolateDown is applied at a heap index.       *)

\* priority_queue(const Compare& c, Container& rhs): stored without heapify
FromHeapContainer(c, s) == [container |-> s, compare |-> c]

\* lhs.percolateDown(indexHeap); the record of the call also keeps the child
\* the call compared the parent with
PercolateDown(indexHeap) ==
    /\ LET r == percolateDown(lhs.container, lhs.compare, indexHeap)
       IN  /\ lhs' = [lhs EXCEPT !.container = r.container]
           /\ last' = [op |-> "percolateDown", arg |-> indexHeap,
                       threw |-> FALSE, ret |-> r.changed,
                       acc |-> r.acc, calls |-> r.calls,
                       bigger |-> IndexBigger(lhs.container, lhs.compare, indexHeap)]
    /\ pre' = Snapshot
    /\ UNCHANGED <<rhs, input, pushed, built, outLhs, outRhs, frame>>

InitPercolate ==
    /\ \E c \in Compares, s \in SeqsUpTo(Values, MaxPdLen) :
          lhs = FromHeapContainer(c, s)
    /\ rhs = Default(DefaultCompare)
    /\ pre = Snapshot
    /\ last = NoCall
    /\ frame = Idle
    /\ input = <<>>
    /\ pushed = 0
    /\ built = FALSE
    /\ outLhs = <<>>
    /\ outRhs = <<>>

NextPercolate == \E indexHeap \in 1 .. MaxPdLen : PercolateDown(indexHeap)

SpecPercolate == InitPercolate /\ [][NextPercolate]_vars

-----------------------------------------------------------------------------
(* Step by step: the same member functions, one loop test, one             *)
(* percolateDown body or one return at a time.  The queue is constructed   *)
(* from a container (the constructor body is heapify), then push and pop   *)
(* are called; a call is started only when none is in progress.            *)

StackTop(stack) == stack[Len(stack)]

StackPop(stack) == SubSeq(stack, 1, Len(stack) - 1)

\* whether a step that touched `reads` in storage c left the storage
Outside(c, reads) == ~(reads \subseteq 0 .. Len(c) - 1)

\* push, lines 146-147: push_back and the first value of index
StepStartPush(t) ==
    /\ frame.pc = "idle"
    /\ size(lhs) < MaxStepSize
    /\ LET c == Append(lhs.container, t)
       IN  /\ lhs' = [lhs EXCEPT !.container = c]
           /\ frame' = [Idle EXCEPT !.pc = "pushTest", !.caller = "push",
                                    !.index = Len(c) \div 2]
    /\ last' = [NoCall EXCEPT !.op = "push", !.arg = t]
    /\ pre' = Snapshot
    /\ UNCHANGED <<rhs, input, pushed, built, outLhs, outRhs>>

\* push, line 148: while (index && percolateDown(index)), up to the call
StepPushTest ==
    /\ frame.pc = "pushTest"
    /\ frame' = IF frame.index # 0
                THEN [frame EXCEPT !.pc = "pd", !.stack = <<frame.index>>,
                                   !.iters = @ + 1, !.reads = {}, !.oob = FALSE]
                ELSE [frame EXCEPT !.pc = "idle", !.reads = {}, !.oob = FALSE]
    /\ UNCHANGED <<lhs, rhs, pre, last, input, pushed, built, outLhs, outRhs>>

\* push, lines 148-149: percolateDown(index) has returned
StepPushResume ==
    /\ frame.pc = "pdRet"
    /\ frame.stack = <<>>
    /\ frame.caller = "push"
    /\ frame' = IF frame.ret
                THEN [frame EXCEPT !.pc = "pushTest", !.index = @ \div 2,
                                   !.reads = {}, !.oob = FALSE]
                ELSE [frame EXCEPT !.pc = "idle", !.reads = {}, !.oob = FALSE]
    /\ UNCHANGED <<lhs, rhs, pre, last, input, pushed, built, outLhs, outRhs>>

\* pop, lines 130-136, up to the call of percolateDown(1)
StepStartPop ==
    /\ frame.pc = "idle"
    /\ IF empty(lhs)
       THEN /\ lhs' = lhs
            /\ frame' = [Idle EXCEPT !.caller = "pop"]
       ELSE LET c == lhs.container
                touched == {0, size(lhs) - 1}
            IN  /\ lhs' = [lhs EXCEPT !.container =
                              PopBack(SwapAt(c, 0, size(lhs) - 1))]
                /\ frame' = [Idle EXCEPT !.pc = "pd", !.caller = "pop",
                                         !.stack = <<1>>, !.iters = 1,
                                         !.reads = touched,
                                         !.oob = Outside(c, touched)]
    /\ last' = [NoCall EXCEPT !.op = "pop"]
    /\ pre' = Snapshot
    /\ UNCHANGED <<rhs, input, pushed, built, outLhs, outRhs>>

\* pop, line 137: percolateDown(1) has returned
StepPopResume ==
    /\ frame.pc = "pdRet"
    /\ frame.stack = <<>>
    /\ frame.caller = "pop"
    /\ frame' = [frame EXCEPT !.pc = "idle", !.reads = {}, !.oob = FALSE]
    /\ UNCHANGED <<lhs, rhs, pre, last, input, pushed, built, outLhs, outRhs>>

\* heapify, line 199: the test indexHeap >= 1, up to the call
StepHeapifyTest ==
    /\ frame.pc = "heapifyTest"
    /\ frame' = IF frame.index >= 1
                THEN [frame EXCEPT !.pc = "pd", !.stack = <<frame.index>>,
                                   !.iters = @ + 1, !.reads = {}, !.oob = FALSE]
                ELSE [frame EXCEPT !.pc = "idle", !.reads = {}, !.oob = FALSE]
    /\ UNCHANGED <<lhs, rhs, pre, last, input, pushed, built, outLhs, outRhs>>

\* a heapify loop without indexHeap--
StepHeapifyResumeNoDecrement ==
    /\ frame.pc = "pdRet"
    /\ frame.stack = <<>>
    /\ frame.caller = "heapify"
    /\ frame' = [frame EXCEPT !.pc = "heapifyTest", !.reads = {}, !.oob = FALSE]
    /\ UNCHANGED <<lhs, rhs, pre, last, input, pushed, built, outLhs, outRhs>>

\* heapify, lines 199-200: percolateDown(indexHeap) has returned; indexHeap--
StepHeapifyResume ==
    /\ frame.pc = "pdRet"
    /\ frame.stack = <<>>
    /\ frame.caller = "heapify"
    /\ frame' = [frame EXCEPT !.pc = "heapifyTest", !.index = @ - 1,
                              !.reads = {}, !.oob = FALSE]
    /\ UNCHANGED <<lhs, rhs, pre, last, input, pushed, built, outLhs, outRhs>>

\* percolateDown, lines 169-188, up to the recursive call or `return false`
StepPercolateDown ==
    /\ frame.pc = "pd"
    /\ LET c == lhs.container
           indexHeap == StackTop(frame.stack)
           indexBigger == IndexBigger(c, lhs.compare, indexHeap)
           reads == ReadsOf(c, indexHeap, indexBigger)
       IN  IF BiggerInRange(c, indexBigger)
              /\ Compare(lhs.compare, At(c, indexHeap - 1), At(c, indexBigger - 1))
           THEN /\ lhs' = [lhs EXCEPT !.container =
                              SwapAt(c, indexHeap - 1, indexBigger - 1)]
                /\ frame' = [frame EXCEPT !.stack = Append(@, indexBigger),
                                          !.reads = reads,
                                          !.oob = Outside(c, reads)]
           ELSE /\ lhs' = lhs
                /\ frame' = [frame EXCEPT !.pc = "pdRet",
                                          !.stack = StackPop(@),
                                          !.ret = FALSE,
                                          !.reads = reads,
                                          !.oob = Outside(c, reads)]
    /\ UNCHANGED <<rhs, pre, last, input, pushed, built, outLhs, outRhs>>

\* percolateDown, lines 184-185: the recursive call has returned; return true
StepPercolateReturn ==
    /\ frame.pc = "pdRet"
    /\ frame.stack # <<>>
    /\ frame' = [frame EXCEPT !.stack = StackPop(@), !.ret = TRUE,
                              !.reads = {}, !.oob = FALSE]
    /\ UNCHANGED <<lhs, rhs, pre, last, input, pushed, built, outLhs, outRhs>>

\* priority_queue(const Compare& c, Container&& rhs) at the start of its
\* body: the container is in place, heapify is about to test its loop
InitSteps ==
    /\ \E c \in Compares, s \in SeqsUpTo(Values, MaxLen) :
          /\ lhs = [container |-> s, compare |-> c]
          /\ frame = [Idle EXCEPT !.pc = "heapifyTest", !.caller = "heapify",
                                  !.index = Len(s) \div 2]
    /\ rhs = Default(DefaultCompare)
    /\ pre = Snapshot
    /\ last = [NoCall EXCEPT !.op = "heapify"]
    /\ input = <<>>
    /\ pushed = 0
    /\ built = FALSE
    /\ outLhs = <<>>
    /\ outRhs = <<>>

\* the steps of a call in progress
Running ==
    \/ StepPushTest
    \/ StepPushResume
    \/ StepPopResume
    \/ StepHeapifyTest
    \/ StepHeapifyResume
    \/ StepPercolateDown
    \/ StepPercolateReturn

NextSteps ==
    \/ \E t \in Values : StepStartPush(t)
    \/ StepStartPop
    \/ Running

\* a call that was started keeps running: nothing else is scheduled
SpecSteps == InitSteps /\ [][NextSteps]_vars /\ WF_vars(Running)

-----------------------------------------------------------------------------
(* Vocabulary of the properties *)

Range(s) == {s[i] : i \in 1 .. Len(s)}

Count(s, v) == Cardinality({i \in 1 .. Len(s) : s[i] = v})

\* s and t hold the same elements with the same multiplicities
SameBag(s, t) ==
    /\ Len(s) = Len(t)
    /\ \A v \in Range(s) \cup Range(t) : Count(s, v) = Count(t, v)

\* no parent ranks strictly below a child (one-based positions)
HeapProperty(q) ==
    \A i \in 2 .. size(q) :
        ~Compare(q.compare, q.container[i \div 2], q.container[i])

\* no element of s ranks strictly below a later one
SortedDown(cmp, s) ==
    \A i, j \in 1 .. Len(s) : i < j => ~Compare(cmp, s[i], s[j])

\* s is a prefix of t or t a prefix of s
Agree(s, t) ==
    \A i \in 1 .. Len(s) : i <= Len(t) => s[i] = t[i]

-----------------------------------------------------------------------------
(* Properties *)

\* C1: after every push and pop (and after construction) the heap property
\* holds: no parent at position i \div 2 ranks strictly below its child at
\* position i, for every 2 <= i <= size().
C1_HeapInvariant == HeapProperty(lhs)

\* a pop that moved the displaced element down at least one level of a heap
\* of three or more remaining elements
C1_Witness ==
    /\ last.op = "pop"
    /\ size(lhs) >= 3
    /\ last.calls >= 2
    /\ Cardinality(Range(lhs.container)) >= 2

\* C2: in every non-empty state top() returns container[0] without
\* throwing, and no stored element ranks strictly above it.
C2_TopIsMaximal ==
    ~empty(lhs) =>
        /\ ~top(lhs).threw
        /\ top(lhs).ret = lhs.container[1]
        /\ \A i \in 1 .. size(lhs) :
               ~Compare(lhs.compare, top(lhs).ret, lhs.container[i])
        /\ last.op = "top" => last.ret = lhs.container[1]

C2_Witness ==
    /\ last.op = "top"
    /\ size(lhs) >= 4
    /\ Cardinality(Range(lhs.container)) = MaxVal
    /\ last.ret = lhs.container[1]

\* C3: the values read by top() before each pop() of a heap built by pushes
\* come out in non-increasing order under compare, and once the heap is
\* empty they are exactly the elements that were pushed.
C3_PopSequenceSorted ==
    /\ SortedDown(lhs.compare, outLhs)
    /\ (pushed = Len(input) /\ empty(lhs)) => SameBag(outLhs, input)

C3_Witness ==
    /\ pushed = Len(input)
    /\ empty(lhs)
    /\ Len(input) = MaxLen
    /\ Cardinality(Range(input)) >= 3
    /\ outLhs # input
    /\ Len(outLhs) = MaxLen

\* C4: a push makes size() one larger, a pop of a non-empty heap makes it
\* one smaller, and empty() is true exactly when size() is 0.
C4_SizeAccounting ==
    /\ last.op = "push" => size(lhs) = size(pre.lhs) + 1
    /\ (last.op = "pop" /\ ~empty(pre.lhs)) => size(lhs) = size(pre.lhs) - 1
    /\ empty(lhs) <=> size(lhs) = 0

C4_Witness ==
    /\ last.op = "pop"
    /\ size(pre.lhs) = MaxSize
    /\ size(lhs) = MaxSize - 1

\* C5: top() on an empty heap throws out_of_range, returns no element and
\* leaves the storage as it was; top() on a non-empty heap does not throw.
C5_TopOnEmptyThrows ==
    /\ empty(lhs) =>
           /\ top(lhs).threw
           /\ top(lhs).ret \notin Values
           /\ top(lhs).q = lhs
    /\ ~empty(lhs) => ~top(lhs).threw
    /\ last.op = "top" =>
           /\ last.threw <=> empty(pre.lhs)
           /\ last.threw => last.ret \notin Values
           /\ lhs = pre.lhs

C5_Witness ==
    /\ last.op = "top"
    /\ last.threw
    /\ empty(lhs)

\* C6: pop() on an empty heap does nothing: no error, size() stays 0, the
\* storage is unchanged, no storage index is touched and percolateDown is
\* not invoked; the heap is then still empty, so the same holds again.
C6_PopOnEmptyNoOp ==
    /\ empty(lhs) => pop(lhs) = Outcome(lhs, FALSE, 0, {}, 0)
    /\ (last.op = "pop" /\ empty(pre.lhs)) =>
           /\ ~last.threw
           /\ size(lhs) = 0
           /\ lhs = pre.lhs
           /\ last.acc = {}
           /\ last.calls = 0

C6_Witness ==
    /\ last.op = "pop"
    /\ empty(pre.lhs)
    /\ empty(lhs)

\* C7: right after a heap is constructed from a container, its storage
\* satisfies the heap property and holds the same multiset as the container.
C7_HeapifyBuildsHeap ==
    last.op = "heapify" =>
        /\ HeapProperty(rhs)
        /\ SameBag(rhs.container, input)

C7_Witness ==
    /\ last.op = "heapify"
    /\ Len(input) = MaxLen
    /\ rhs.container # input
    /\ rhs.container[1] = input[MaxLen]

\* C8: the heap built by pushes and the heap built by heapify from the same
\* elements give the same top() whenever as many elements were popped from
\* each, and the same pop sequence; for 5, 3, 8, 1, 9, 2 it is 9, 8, 5, 3, 2, 1.
C8_BuildEquivalence ==
    /\ (pushed = Len(input) /\ built) =>
           /\ Agree(outLhs, outRhs)
           /\ Len(outLhs) = Len(outRhs) =>
                  /\ top(lhs).threw = top(rhs).threw
                  /\ top(lhs).ret = top(rhs).ret
    /\ Drained => outLhs = outRhs
    /\ (Drained /\ input = Example /\ lhs.compare = "less") =>
           /\ outLhs = <<9, 8, 5, 3, 2, 1>>
           /\ outRhs = <<9, 8, 5, 3, 2, 1>>

C8_Witness ==
    /\ Drained
    /\ input = Example
    /\ lhs.compare = "less"
    /\ outRhs = <<9, 8, 5, 3, 2, 1>>

\* the two builds of the same elements can leave different storage layouts
C8_LayoutsDiffer ==
    /\ pushed = Len(input)
    /\ built
    /\ outLhs = <<>>
    /\ outRhs = <<>>
    /\ lhs.container # rhs.container

\* C9: with the "greater" ordering top() is a least stored element and the
\* pop sequence is non-decreasing; for 5, 3, 8, 1, 9, 2 it is 1, 2, 3, 5, 8, 9.
C9_MinHeap ==
    lhs.compare = "greater" =>
        /\ \A i \in 1 .. size(lhs) : top(lhs).ret <= lhs.container[i]
        /\ \A i \in 1 .. size(rhs) : top(rhs).ret <= rhs.container[i]
        /\ \A i, j \in 1 .. Len(outLhs) : i < j => outLhs[i] <= outLhs[j]
        /\ \A i, j \in 1 .. Len(outRhs) : i < j => outRhs[i] <= outRhs[j]
        /\ (Drained /\ input = Example) =>
               /\ outLhs = <<1, 2, 3, 5, 8, 9>>
               /\ outRhs = <<1, 2, 3, 5, 8, 9>>

C9_Witness ==
    /\ lhs.compare = "greater"
    /\ rhs.compare = "greater"
    /\ Drained
    /\ input = Example
    /\ outLhs = <<1, 2, 3, 5, 8, 9>>

\* C10: after swap(lhs, rhs) each queue holds the other's former storage
\* and ordering, so both still satisfy the heap property, and a second swap
\* gives back both original queues; {10, 4} and {7} become top 7 / size 1
\* and top 10 / size 2.
C10_SwapExchanges ==
    last.op = "swap" =>
        /\ lhs = pre.rhs
        /\ rhs = pre.lhs
        /\ HeapProperty(lhs)
        /\ HeapProperty(rhs)
        /\ swap(lhs, rhs) = pre
        /\ (pre.lhs.container = <<10, 4>> /\ pre.rhs.container = <<7>>) =>
               /\ top(lhs).ret = 7
               /\ size(lhs) = 1
               /\ top(rhs).ret = 10
               /\ size(rhs) = 2

C10_Witness ==
    /\ last.op = "swap"
    /\ pre.lhs.container = <<10, 4>>
    /\ pre.rhs.container = <<7>>
    /\ pre.lhs.compare # pre.rhs.compare
    /\ top(lhs).ret = 7

\* C11: a queue copy- or move-constructed from a source whose heap property
\* holds has the source's storage, element for element, and satisfies the
\* heap property under its own ordering, whether that ordering is the
\* defaulted one or the constructor's argument.
C11_CopyKeepsHeap ==
    (last.op \in {"copy", "move"} /\ HeapProperty(pre.rhs)) =>
        /\ lhs.container = pre.rhs.container
        /\ HeapProperty(lhs)

\* C12: the queue constructed from a range has exactly the storage of an
\* empty queue into which the elements of the range were pushed in order;
\* from an empty range it is the empty queue, and nothing is thrown.
C12_RangeIsPushes ==
    /\ (built /\ pushed = Len(input)) => rhs = lhs
    /\ last.op = "range" =>
           /\ ~last.threw
           /\ input = <<>> => empty(rhs)

\* both queues hold the elements of a range that bulk heapify would have
\* laid out differently
C12_Witness ==
    /\ built
    /\ pushed = Len(input)
    /\ Len(input) >= 3
    /\ rhs.container = lhs.container
    /\ rhs.container # FromContainer(rhs.compare, input).q.container

\* C13: pop() on a non-empty heap removes exactly one occurrence of the
\* element top() returned just before: that value occurs once less in the
\* storage and every other value occurs as often as before.
C13_PopRemovesTop ==
    (last.op = "pop" /\ ~empty(pre.lhs)) =>
        LET t == top(pre.lhs).ret
        IN  /\ size(lhs) = size(pre.lhs) - 1
            /\ \A v \in Values \cup Range(pre.lhs.container) \cup Range(lhs.container) :
                   Count(lhs.container, v)
                       = Count(pre.lhs.container, v) - (IF v = t THEN 1 ELSE 0)

\* a pop from a heap in which the top value occurs more than once
C13_Witness ==
    /\ last.op = "pop"
    /\ size(pre.lhs) >= 3
    /\ Count(pre.lhs.container, top(pre.lhs).ret) >= 2
    /\ Cardinality(Range(pre.lhs.container)) >= 2
    /\ Count(lhs.container, top(pre.lhs).ret)
           = Count(pre.lhs.container, top(pre.lhs).ret) - 1

\* position j lies in the subtree rooted at position i (one-based, i >= 1)
RECURSIVE IsUnder(_, _)
IsUnder(j, i) ==
    IF j < i THEN FALSE ELSE IF j = i THEN TRUE ELSE IsUnder(j \div 2, i)

Subtree(i, n) == {j \in 1 .. n : IsUnder(j, i)}

\* the heap property inside the subtree rooted at i
SubtreeHeap(q, i) ==
    \A j \in Subtree(i, size(q)) \ {i} :
        ~Compare(q.compare, q.container[j \div 2], q.container[j])

\* C14: if the subtrees rooted at both children of position i satisfy the
\* heap property, then after percolateDown(i) the subtree rooted at i
\* satisfies it, holds the same multiset as before, and every position
\* outside that subtree holds what it held.
C14_PercolateDownRepairs ==
    (/\ last.op = "percolateDown"
     /\ SubtreeHeap(pre.lhs, 2 * last.arg)
     /\ SubtreeHeap(pre.lhs, 2 * last.arg + 1)) =>
        LET i == last.arg
            n == size(pre.lhs)
            under == Subtree(i, n)
        IN  /\ size(lhs) = n
            /\ SubtreeHeap(lhs, i)
            /\ \A v \in Values :
                   Cardinality({j \in under : lhs.container[j] = v})
                       = Cardinality({j \in under : pre.lhs.container[j] = v})
            /\ \A j \in (1 .. n) \ under :
                   lhs.container[j] = pre.lhs.container[j]

\* a call at position 2 that moved its element one level down,
\* in a storage whose other half was out of heap order and stayed so
C14_Witness ==
    /\ last.op = "percolateDown"
    /\ last.arg = 2
    /\ last.ret = TRUE
    /\ size(lhs) = MaxPdLen
    /\ SubtreeHeap(pre.lhs, 4)
    /\ SubtreeHeap(pre.lhs, 5)
    /\ SubtreeHeap(lhs, 2)
    /\ ~SubtreeHeap(lhs, 3)
    /\ lhs.container[1] = pre.lhs.container[1]

\* C18: percolateDown(i) takes the right child 2i+1 as the candidate only
\* when 2i+1 <= size() and compare(left, right) is true; otherwise (no right
\* child, children equivalent, or left ranking above right) the candidate
\* is the left child 2i.  When a swap is made, the candidate is the element
\* that moves up.
C18_CandidateChoice ==
    last.op = "percolateDown" =>
        LET i == last.arg
            c == pre.lhs.container
            hasRight == 2 * i + 1 <= Len(c)
        IN  /\ last.bigger \in {2 * i, 2 * i + 1}
            /\ last.bigger = 2 * i + 1 <=>
                   (hasRight /\ Compare(pre.lhs.compare, c[2 * i], c[2 * i + 1]))
            /\ (hasRight /\ c[2 * i] = c[2 * i + 1]) => last.bigger = 2 * i
            /\ (hasRight /\ Compare(pre.lhs.compare, c[2 * i + 1], c[2 * i])) =>
                   last.bigger = 2 * i
            /\ ~hasRight => last.bigger = 2 * i
            /\ last.ret = TRUE => lhs.container[i] = c[last.bigger]

\* two equal children below a smaller parent: the left one was taken
C18_Witness ==
    /\ last.op = "percolateDown"
    /\ 2 * last.arg + 1 <= size(pre.lhs)
    /\ pre.lhs.container[2 * last.arg] = pre.lhs.container[2 * last.arg + 1]
    /\ last.bigger = 2 * last.arg
    /\ last.ret = TRUE
    /\ lhs.container[2 * last.arg + 1] = pre.lhs.container[2 * last.arg + 1]

\* C19: percolateDown(i) returns true exactly when it exchanged the element
\* at position i with its candidate child; when it returns false the storage
\* is unchanged.  A parent equivalent to its candidate is not exchanged, and
\* a position without children returns false.
C19_ReturnsWhetherSwapped ==
    last.op = "percolateDown" =>
        LET i == last.arg
            c == pre.lhs.container
            b == last.bigger
            swapped == /\ b <= Len(c)
                       /\ lhs.container[i] = c[b]
                       /\ lhs.container[i] # c[i]
        IN  /\ last.ret = TRUE <=> swapped
            /\ last.ret = TRUE <=> lhs.container # c
            /\ last.ret = FALSE => lhs = pre.lhs
            /\ (b <= Len(c) /\ c[i] = c[b]) => last.ret = FALSE
            /\ 2 * i > Len(c) => last.ret = FALSE

\* a call that exchanged once and whose recursive call found nothing to do
C19_Witness ==
    /\ last.op = "percolateDown"
    /\ last.ret = TRUE
    /\ last.calls = 2
    /\ 4 * last.arg <= size(lhs)
    /\ lhs.container # pre.lhs.container

\* C17: push(x) on a heap adds one occurrence of x and nothing else, and
\* only positions on the path from the new last position up to the root can
\* change: a position that is no ancestor of the new last position holds
\* the element it held before.
C17_PushFrame ==
    (last.op = "push" /\ HeapProperty(pre.lhs)) =>
        LET n == size(lhs)
        IN  /\ SameBag(lhs.container, Append(pre.lhs.container, last.arg))
            /\ \A k \in 1 .. n - 1 :
                   ~IsUnder(n, k) => lhs.container[k] = pre.lhs.container[k]

\* a push whose element rose to the root of a heap of at least six elements
C17_Witness ==
    /\ last.op = "push"
    /\ size(lhs) >= 6
    /\ lhs.container[1] = last.arg
    /\ pre.lhs.container[1] # last.arg
    /\ last.calls >= 4
    /\ \E k \in 2 .. size(lhs) - 1 :
           ~IsUnder(size(lhs), k) /\ lhs.container[k] # last.arg

RECURSIVE Log2Floor(_)
Log2Floor(n) == IF n <= 1 THEN 0 ELSE 1 + Log2Floor(n \div 2)

\* a call that has returned left what the member function as a whole leaves
StepsAgree ==
    frame.pc = "idle" =>
        /\ last.op = "push" => lhs = push(pre.lhs, last.arg).q
        /\ last.op = "pop" => lhs = pop(pre.lhs).q
        /\ last.op = "heapify" => lhs = heapify(pre.lhs).q

\* what bounds the loops and the recursion while a call runs
C15_Variant ==
    /\ \A k \in 2 .. Len(frame.stack) :
           /\ frame.stack[k] >= 2 * frame.stack[k - 1]
           /\ frame.stack[k] <= size(lhs)
    /\ frame.caller = "push" =>
           /\ frame.iters <= Log2Floor(size(lhs)) + 1
           /\ frame.index \in 0 .. size(lhs) \div 2
    /\ frame.caller = "heapify" =>
           /\ frame.iters <= size(lhs) \div 2
           /\ frame.index \in 0 .. size(lhs) \div 2
           /\ size(lhs) <= 1 => frame.iters = 0

\* C15: every call returns.  A recursive percolateDown call is made with an
\* index at least twice its caller's and at most size(); the loop of push
\* calls percolateDown at most floor(log2(size())) + 1 times; the loop of
\* heapify runs from size()/2 down to 1, not at all for size() 0 and 1.
C15_Terminates ==
    /\ [](C15_Variant)
    /\ (frame.pc # "idle") ~> (frame.pc = "idle")

\* a push whose loop walked from the parent of the new position to the root
\* and returned
C15_Witness ==
    /\ frame.pc = "idle"
    /\ last.op = "push"
    /\ size(lhs) >= 4
    /\ frame.iters = Log2Floor(size(lhs))
    /\ frame.index = 0
    /\ lhs.container[1] = last.arg

\* the state right after pop exchanged first and last and removed the last
AfterPopExchange ==
    /\ frame.caller = "pop"
    /\ frame.pc = "pd"
    /\ frame.stack = <<1>>

\* C16: every storage index a step of push, pop, heapify or percolateDown
\* touches lies in 0 .. size() - 1 at the time it is touched; percolateDown
\* is never entered with heap index 0, and reads the left, right or parent
\* element only when its one-based index is at most size(); pop on a heap of
\* one element calls percolateDown(1) on the empty storage, which touches
\* nothing and returns false.
C16_AccessesInRange ==
    /\ frame.oob = FALSE
    /\ \A k \in 1 .. Len(frame.stack) : frame.stack[k] >= 1
    /\ IF AfterPopExchange
       THEN /\ frame.reads = {0, size(pre.lhs) - 1}
            /\ frame.reads \subseteq 0 .. size(pre.lhs) - 1
       ELSE frame.reads \subseteq 0 .. size(lhs) - 1
    /\ (frame.caller = "pop" /\ size(pre.lhs) = 1) =>
           /\ empty(lhs)
           /\ frame.iters = 1
           /\ frame.pc = "pd" => frame.stack = <<1>>
           /\ frame.pc = "pdRet" =>
                  /\ frame.reads = {}
                  /\ frame.ret = FALSE
                  /\ frame.stack = <<>>

\* percolateDown(1) has just returned from the storage a pop emptied
C16_Witness ==
    /\ frame.caller = "pop"
    /\ size(pre.lhs) = 1
    /\ frame.pc = "pdRet"
    /\ frame.reads = {}
    /\ empty(lhs)

\* a percolateDown body that read both children and the parent of a heap
\* whose last position is a right child
C16_FullReads ==
    /\ frame.pc = "pd"
    /\ Len(frame.stack) = 2
    /\ size(lhs) = 2 * frame.stack[1] + 1
    /\ Cardinality(frame.reads) = 3

====
